---- MODULE Spec2Model ----
(***************************************************************************)
(* OctaneShell (src/main.rs): the read-eval loop, the builtin dispatcher,  *)
(* the process launcher and the table of background processes.             *)
(*                                                                         *)
(* Text is modelled as sequences of one-character strings, so that trim,   *)
(* expand_env_vars, the alias lookup, split_whitespace and parse::<u32>    *)
(* are computed the way the code computes them.                            *)
(*                                                                         *)
(* Spec is the shell over a fixed set of lines; TextSpec is the text       *)
(* stages of one iteration, statement by statement, over every short text. *)
(***************************************************************************)
EXTENDS Integers, Sequences, FiniteSets, TLC

\* Bounds of the model: the OS hands out process identifiers 1..MaxPid, and
\* the texts of the text specification have at most MaxLen characters.
MaxPid == 2

MaxLen == 4

PIDs == 1..MaxPid

(***************************************************************************)
(* Characters and words.                                                   *)
(***************************************************************************)
DigitChars == <<"0", "1", "2", "3", "4", "5", "6", "7", "8", "9">>

IsDigit(c) == \E i \in 1..Len(DigitChars) : DigitChars[i] = c

DigitVal(c) == (CHOOSE i \in 1..Len(DigitChars) : DigitChars[i] = c) - 1

\* char::is_whitespace, on the characters the model's lines use
IsWhitespace(c) == c \in {" ", "\t", "\n"}

\* ch.is_alphanumeric() || ch == '_', on the characters the model's lines use
IsNameChar(c) ==
    \/ IsDigit(c)
    \/ c \in {"a", "c", "d", "e", "h", "i", "j", "k", "l", "o", "p", "r",
              "s", "t", "w", "x", "b", "B", "E", "U", "X", "_"}

RECURSIVE Str(_)
\* the text of a character sequence, for reading traces and comparing words
Str(cs) == IF cs = <<>> THEN "" ELSE Head(cs) \o Str(Tail(cs))

SP == <<" ">>
W_calc == <<"c", "a", "l", "c">>
W_exit == <<"e", "x", "i", "t">>
W_cd == <<"c", "d">>
W_pwd == <<"p", "w", "d">>
W_clear == <<"c", "l", "e", "a", "r">>
W_jobs == <<"j", "o", "b", "s">>
W_kill == <<"k", "i", "l", "l">>
W_ls == <<"l", "s">>
W_ll == <<"l", "l">>
W_amp == <<"&">>
W_Jobs == <<"J", "o", "b", "s">>

\* the decimal text of a small number
RECURSIVE Decimal(_)
Decimal(n) ==
    IF n < 10 THEN <<DigitChars[n + 1]>>
    ELSE Decimal(n \div 10) \o <<DigitChars[(n % 10) + 1]>>

(***************************************************************************)
(* str::trim and split_whitespace.                                         *)
(***************************************************************************)
RECURSIVE TrimStart(_)
TrimStart(s) ==
    IF s # <<>> /\ IsWhitespace(Head(s)) THEN TrimStart(Tail(s)) ELSE s

RECURSIVE TrimEnd(_)
TrimEnd(s) ==
    IF s # <<>> /\ IsWhitespace(s[Len(s)])
    THEN TrimEnd(SubSeq(s, 1, Len(s) - 1))
    ELSE s

Trim(s) == TrimEnd(TrimStart(s))

\* length of the longest prefix of s whose characters all satisfy / all fail
\* is_whitespace
RECURSIVE WordLen(_)
WordLen(s) ==
    IF s = <<>> \/ IsWhitespace(Head(s)) THEN 0 ELSE 1 + WordLen(Tail(s))

RECURSIVE split_whitespace(_)
split_whitespace(s) ==
    LET t == TrimStart(s)
        n == WordLen(t)
    IN  IF t = <<>> THEN <<>>
        ELSE <<SubSeq(t, 1, n)>> \o split_whitespace(SubSeq(t, n + 1, Len(t)))

(***************************************************************************)
(* expand_env_vars (main.rs 27-53) under a fixed environment.              *)
(***************************************************************************)
\* the environment: X is set to "ll", E is set to the empty text, B is set
\* to a value that is not valid Unicode (the one byte 0x80), every other
\* name is unset

\* the names env::var returns Ok for: set, and the value valid Unicode
EnvNames == {<<"X">>, <<"E">>}

\* the names env::var returns Err(VarError::NotUnicode) for
NotUnicodeNames == {<<"B">>}

\* the names set in the environment (env::var_os returns Some)
SetNames == EnvNames \cup NotUnicodeNames

\* the value env::var returns inside Ok
EnvVar(name) == IF name = <<"X">> THEN W_ll ELSE <<>>

\* the value the environment holds, one element per character or raw byte
OsValue(name) == IF name \in NotUnicodeNames THEN <<"<80>">> ELSE EnvVar(name)

\* a name that is one character at most
NameLenOne(s) == IF s = <<>> \/ ~IsNameChar(Head(s)) THEN 0 ELSE 1

RECURSIVE NameLen(_)
NameLen(s) ==
    IF s = <<>> \/ ~IsNameChar(Head(s)) THEN 0 ELSE 1 + NameLen(Tail(s))

RECURSIVE expand_env_vars(_)
expand_env_vars(s) ==
    IF s = <<>> THEN <<>>
    ELSE IF Head(s) = "$"
         THEN LET rest == Tail(s)
                  n == NameLen(rest)
                  var == SubSeq(rest, 1, n)
              IN  (IF var \in EnvNames THEN EnvVar(var) ELSE <<"$">> \o var)
                  \o expand_env_vars(SubSeq(rest, n + 1, Len(rest)))
         ELSE <<Head(s)>> \o expand_env_vars(Tail(s))

(***************************************************************************)
(* The alias table (main.rs 134-137) and the whole-line lookup (195-197).  *)
(***************************************************************************)
AliasKeys == {W_ll, <<".", ".">>, <<"h">>}

AliasTarget(k) ==
    IF k = W_ll THEN W_ls \o SP \o <<"-", "l", "a">>
    ELSE IF k = <<".", ".">> THEN W_cd \o SP \o <<".", ".">>
    ELSE W_cd \o SP \o <<"~">>

\* a lookup by the first word of the line
ApplyAliasFirstWord(l) ==
    LET n == WordLen(l)
    IN  IF SubSeq(l, 1, n) \in AliasKeys
        THEN AliasTarget(SubSeq(l, 1, n)) \o SubSeq(l, n + 1, Len(l))
        ELSE l

ApplyAlias(l) == IF l \in AliasKeys THEN AliasTarget(l) ELSE l

(***************************************************************************)
(* One line from read_line to (parts, background): main.rs 188-209.        *)
(***************************************************************************)
\* input.trim(), expand_env_vars, alias lookup: the text that is tokenized
Preprocess(raw) ==
    LET t == Trim(raw)
    IN  IF t = <<>> THEN <<>> ELSE ApplyAlias(expand_env_vars(t))

\* parts before the trailing "&" is looked at
RawParts(raw) == split_whitespace(Preprocess(raw))

\* an "&" anywhere in the line
BackgroundAny(ps) == \E i \in 1..Len(ps) : ps[i] = W_amp

Background(ps) == ps # <<>> /\ ps[Len(ps)] = W_amp

\* no pop: the marker stays in the list
PopAmpKeep(ps) == ps

\* parts after parts.pop()
PopAmp(ps) == IF Background(ps) THEN SubSeq(ps, 1, Len(ps) - 1) ELSE ps

(***************************************************************************)
(* args[0].parse::<u32>() (main.rs 111): an optional "+", then one or more *)
(* decimal digits, the value at most 4294967295.                           *)
(***************************************************************************)
RECURSIVE StripZeros(_)
StripZeros(ds) ==
    IF Len(ds) > 1 /\ Head(ds) = "0" THEN StripZeros(Tail(ds)) ELSE ds

U32MaxDigits == <<"4", "2", "9", "4", "9", "6", "7", "2", "9", "5">>

\* ds and es are digit sequences of the same length: ds > es as numbers
RECURSIVE DigitsGreater(_, _)
DigitsGreater(ds, es) ==
    IF ds = <<>> THEN FALSE
    ELSE IF Head(ds) # Head(es) THEN DigitVal(Head(ds)) > DigitVal(Head(es))
    ELSE DigitsGreater(Tail(ds), Tail(es))

FitsU32(ds) ==
    LET z == StripZeros(ds)
    IN  \/ Len(z) < Len(U32MaxDigits)
        \/ Len(z) = Len(U32MaxDigits) /\ ~DigitsGreater(z, U32MaxDigits)

RECURSIVE DigitsValue(_)
DigitsValue(ds) ==
    IF ds = <<>> THEN 0
    ELSE 10 * DigitsValue(SubSeq(ds, 1, Len(ds) - 1)) + DigitVal(ds[Len(ds)])

ParseDigits(tok) == IF tok # <<>> /\ Head(tok) = "+" THEN Tail(tok) ELSE tok

ParseOk(tok) ==
    LET ds == ParseDigits(tok)
    IN  /\ ds # <<>>
        /\ \A i \in 1..Len(ds) : IsDigit(ds[i])
        /\ FitsU32(ds)

\* the parsed value; the model's lines that parse hold small numbers only
ParseU32(tok) == DigitsValue(StripZeros(ParseDigits(tok)))

(***************************************************************************)
(* The input lines of the model (without the line feed read_line keeps).   *)
(***************************************************************************)
KillLine(p) == W_kill \o SP \o Decimal(p)

Lines ==
    {<<>>, <<" ", "\t">>, <<"$", "E">>, W_amp,
     W_jobs, W_jobs \o SP \o W_amp, W_Jobs,
     W_kill, W_kill \o SP \o <<"x">>, W_kill \o SP \o <<"-", "1">>,
     W_kill \o SP \o <<"4", "2", "9", "4", "9", "6", "7", "2", "9", "6">>,
     W_kill \o SP \o <<"+", "0", "1">> \o SP \o <<"9">>,
     KillLine(1) \o SP \o W_amp,
     W_ls, <<" ">> \o W_ls \o <<" ", " ">> \o W_amp \o <<" ">>, <<"$", "X">>,
     W_ll \o SP \o <<"-", "a">>, <<"h">>,
     W_exit, W_clear, W_pwd, W_calc, W_calc \o SP \o <<"1">>,
     W_cd, W_cd \o SP \o <<"a">>, W_cd \o SP \o <<"a">> \o SP \o W_amp,
     <<".", ".">>}
    \cup {KillLine(p) : p \in PIDs}

\* what read_line leaves in `input` for a line of the model
AsRead(l) == l \o <<"\n">>

\* parts after split_whitespace, per line (computed once)
LineParts == [l \in Lines |-> RawParts(AsRead(l))]

Builtins == {W_calc, W_exit, W_cd, W_pwd, W_clear, W_jobs, W_kill}

Cmd(l) == PopAmp(LineParts[l])[1]

Args(l) == Tail(PopAmp(LineParts[l]))

\* the lines that reach run_builtin with a first token
DispatchedLines == {l \in Lines : PopAmp(LineParts[l]) # <<>>}

\* the lines whose first token is c, per builtin (computed once)
BuiltinLines == [c \in Builtins |-> {l \in DispatchedLines : Cmd(l) = c}]

\* a faulty dispatcher: an arm that handles the command answers false
ExternalLinesAll == DispatchedLines

\* the lines run_builtin answers false for
ExternalLines == {l \in DispatchedLines : Cmd(l) \notin Builtins}

(***************************************************************************)
(* The process table: HashMap<u32, Child> as a set of <<key, child>>       *)
(* entries, a Child being named by the pid of the process it is the handle *)
(* of.                                                                     *)
(***************************************************************************)
TableKeys(t) == {e[1] : e \in t}

TableGet(t, pid) == (CHOOSE e \in t : e[1] = pid)[2]

\* a faulty insert: the table is rebuilt around the new entry
TableInsertAlone(t, pid, c) == {<<pid, c>>}

\* HashMap::insert: the entry under pid, if any, is replaced
TableInsert(t, pid, c) == {e \in t : e[1] # pid} \cup {<<pid, c>>}

\* a faulty remove: the filter is inverted, the other entries go
TableRemoveOthers(t, pid) == {e \in t : e[1] = pid}

\* a faulty remove: the entry is looked up and left in the table
TableRemoveNone(t, pid) == t

\* HashMap::remove
TableRemove(t, pid) == {e \in t : e[1] # pid}

(***************************************************************************)
(* Messages: what println! prints, one tuple per line.                     *)
(***************************************************************************)
MsgStarted(pid) == <<"Started background job with PID", pid>>
MsgKilled(pid) == <<"Killed process", pid>>
MsgKillFailed(pid) == <<"Failed to kill", pid>>
MsgNoSuch(pid) == <<"No such background process:", pid>>
MsgRunning(pid) == <<"PID", pid, "- Running">>
MsgInvalidPid == <<"Invalid PID">>
MsgKillUsage == <<"Usage: kill <pid>">>
MsgNoJobs == <<"No background jobs">>
MsgSpawnError == <<"Error running command:">>
MsgWaitError == <<"Error waiting on process:">>
MsgError == <<"Error:">>
MsgCalcUsage == <<"Usage: calc <expression>">>
MsgCalcResult == <<"calc result">>
MsgCalcError == <<"Error evaluating expression:">>
MsgCwd(d) == <<"cwd", d>>

\* the orders in which a set of pids can be enumerated
Orders(S) ==
    {f \in [1..Cardinality(S) -> S] : \A i, j \in DOMAIN f : i # j => f[i] # f[j]}

\* a faulty jobs: the enumeration stops after the first entry
JobsOutputFirst(t) ==
    IF t = {} THEN {<<MsgNoJobs>>}
    ELSE {<<MsgRunning(p)>> : p \in TableKeys(t)}

\* jobs (main.rs 95-102): what the builtin may print for table t, the
\* iteration order of the HashMap being unspecified
JobsOutput(t) ==
    IF t = {} THEN {<<MsgNoJobs>>}
    ELSE {[i \in DOMAIN f |-> MsgRunning(f[i])] : f \in Orders(TableKeys(t))}

\* a faulty kill: the lookup's result is not looked at
KillMessageAlways(pid, found, ok) ==
    IF ok THEN MsgKilled(pid) ELSE MsgKillFailed(pid)

\* a faulty kill: a failed termination is reported as a missing record
KillMessageMerged(pid, found, ok) ==
    IF found /\ ok THEN MsgKilled(pid) ELSE MsgNoSuch(pid)

\* kill (main.rs 119-126): the line printed for pid, found in the table or
\* not, child.kill() having returned Ok or Err
KillMessage(pid, found, ok) ==
    IF found THEN (IF ok THEN MsgKilled(pid) ELSE MsgKillFailed(pid))
    ELSE MsgNoSuch(pid)

(***************************************************************************)
(* State.                                                                  *)
(***************************************************************************)
VARIABLES
    pc,          \* where main is: "read" (a new iteration, blocked in
                 \* read_line), "end" (the iteration is over), "locked" (the
                 \* iteration is over but for a MutexGuard of the table still
                 \* alive), "wait" (blocked in child.wait()), "done" (fell
                 \* out of the loop), "exited" (process::exit(0)), "panicked"
    stdin,       \* "open", or "eof" once read_line has returned Ok(0)
    input,       \* the String read_line filled in this iteration
    line,        \* the second `input` of the iteration: the text after
                 \* trim, expansion and alias lookup, which is tokenized
    parts,       \* the tokens of this iteration, after parts.pop()
    background,  \* the background flag of this iteration
    out,         \* the lines printed by this iteration
    ran,         \* the program this iteration has run as a child process
                 \* (Command::spawn or Command::status returned Ok), <<>> if
                 \* none
    bg,          \* bg_processes: the process table
    lock,        \* TRUE while the table's mutex is held
    child,       \* the pid of the Child the iteration waits on, 0 when none
    os,          \* per pid, the shell's child under it as the OS sees it:
                 \* "free" (none), "running", "exited" (terminated, the pid
                 \* still taken: the shell holds the Child and has not waited)
                 \* or "dropped" (the shell has dropped the Child unwaited;
                 \* the pid is taken until the OS lets go of the process)
    cwd,         \* the working directory
    started,     \* history: the pids printed in a started message so far
    removed      \* history: TRUE once a kill has removed a record

vars == <<pc, stdin, input, line, parts, background, out, ran, bg, lock, child,
          os, cwd, started, removed>>

\* the locals of an iteration
locals == <<input, line, parts, background, out, ran>>

Dirs == {"/", "/a"}

\* env::set_current_dir on a file system holding / and /a
ChdirOk(d, arg) == arg \in {".", ".."} \/ (d = "/" /\ arg = "a")

\* every change of directory ends in /a
ChdirTargetSub(d, arg) == "/a"

ChdirTarget(d, arg) ==
    IF arg = "." THEN d
    ELSE IF arg = ".." THEN "/"
    ELSE "/a"

\* pids the OS may give a new child: those no child of the shell still has
FreePids == {p \in PIDs : os[p] = "free"}

Init ==
    /\ pc = "read"
    /\ stdin = "open"
    /\ input = <<>>
    /\ line = <<>>
    /\ parts = <<>>
    /\ background = FALSE
    /\ out = <<>>
    /\ ran = <<>>
    /\ bg = {}
    /\ lock = FALSE
    /\ child = 0
    /\ os = [p \in PIDs |-> "free"]
    /\ cwd = "/"
    /\ started = {}
    /\ removed = FALSE

(***************************************************************************)
(* One iteration of the loop (main.rs 157-237), by what the line is.       *)
(***************************************************************************)
\* read_line returned Ok with line l, which tokenizes to ps: the locals of
\* the iteration
Read(l, ps) ==
    /\ pc = "read"
    /\ stdin = "open"
    /\ input' = AsRead(l)
    /\ line' = Preprocess(AsRead(l))
    /\ parts' = PopAmp(ps)
    /\ background' = Background(ps)
    /\ stdin' = stdin

\* line l reaches run_builtin
Dispatched(l) == Read(l, LineParts[l])

\* the iteration prints o and is over, the table and the children untouched
Continue(o) ==
    /\ out' = o
    /\ ran' = <<>>
    /\ pc' = "end"
    /\ UNCHANGED <<bg, lock, child, os, cwd, started, removed>>

\* main.rs 157-184: the next iteration starts: prompt, fresh input
Prompt ==
    /\ pc = "end"
    /\ pc' = "read"
    /\ input' = <<>>
    /\ line' = <<>>
    /\ parts' = <<>>
    /\ background' = FALSE
    /\ out' = <<>>
    /\ ran' = <<>>
    /\ UNCHANGED <<stdin, bg, lock, child, os, cwd, started, removed>>

\* main.rs 185-187: read_line fails, the loop breaks and main returns
ReadError ==
    /\ pc = "read"
    /\ stdin = "open"
    /\ pc' = "done"
    /\ UNCHANGED <<stdin, locals, bg, lock, child, os, cwd, started, removed>>

\* main.rs 185-191: at end of file read_line returns Ok(0), input is empty
\* and the iteration is skipped
ReadEof ==
    /\ pc = "read"
    /\ stdin' = "eof"
    /\ pc' = "end"
    /\ UNCHANGED <<locals, bg, lock, child, os, cwd, started, removed>>

\* main.rs 189-191 and 200-202: nothing left after trim, or no token after
\* expansion
SkipLine ==
    \E l \in Lines :
        /\ LineParts[l] = <<>>
        /\ Read(l, <<>>)
        /\ Continue(<<>>)

\* main.rs 204-211: the only token was "&", parts is empty after the pop and
\* parts[0] is out of bounds
LoneAmpersand ==
    \E l \in Lines \ DispatchedLines :
        /\ LineParts[l] # <<>>
        /\ Read(l, LineParts[l])
        /\ out' = <<>>
        /\ ran' = <<>>
        /\ pc' = "panicked"
        /\ UNCHANGED <<bg, lock, child, os, cwd, started, removed>>

\* main.rs 57-68
Calc ==
    \E l \in BuiltinLines[W_calc] :
        /\ Dispatched(l)
        /\ IF Args(l) = <<>> THEN Continue(<<MsgCalcUsage>>)
           ELSE \E ok \in BOOLEAN :
                    Continue(<<IF ok THEN MsgCalcResult ELSE MsgCalcError>>)

\* main.rs 69-71
Exit ==
    \E l \in BuiltinLines[W_exit] :
        /\ Dispatched(l)
        /\ out' = <<>>
        /\ ran' = <<>>
        /\ pc' = "exited"
        /\ UNCHANGED <<bg, lock, child, os, cwd, started, removed>>

\* main.rs 72-78
Cd ==
    \E l \in BuiltinLines[W_cd] :
        /\ Dispatched(l)
        /\ LET new_dir == IF Args(l) = <<>> THEN "." ELSE Str(Args(l)[1])
           IN  IF ChdirOk(cwd, new_dir)
               THEN /\ cwd' = ChdirTarget(cwd, new_dir)
                    /\ out' = <<>>
               ELSE /\ cwd' = cwd
                    /\ out' = <<MsgError>>
        /\ ran' = <<>>
        /\ pc' = "end"
        /\ UNCHANGED <<bg, lock, child, os, started, removed>>

\* main.rs 79-85
Pwd ==
    \E l \in BuiltinLines[W_pwd] :
        /\ Dispatched(l)
        /\ \E ok \in BOOLEAN : Continue(<<IF ok THEN MsgCwd(cwd) ELSE MsgError>>)

\* main.rs 86-93: status() runs the platform's clear program and waits for
\* it; unwrap() panics when it could not be run
Clear ==
    \E l \in BuiltinLines[W_clear] :
        /\ Dispatched(l)
        /\ \E ok \in BOOLEAN :
               /\ pc' = IF ok THEN "end" ELSE "panicked"
               /\ ran' = IF ok THEN W_clear ELSE <<>>
               /\ out' = <<>>
               /\ UNCHANGED <<bg, lock, child, os, cwd, started, removed>>

\* main.rs 94-104: the guard lives to the end of the arm
Jobs ==
    \E l \in BuiltinLines[W_jobs] :
        /\ Dispatched(l)
        /\ ~lock
        /\ lock' = TRUE
        /\ out' \in JobsOutput(bg)
        /\ ran' = <<>>
        /\ pc' = "locked"
        /\ UNCHANGED <<bg, child, os, cwd, started, removed>>

\* the Child of pid is dropped without a wait: the shell keeps no handle of
\* the process
Dropped(o, pid) == [o EXCEPT ![pid] = "dropped"]

\* main.rs 106-128
Kill ==
    \E l \in BuiltinLines[W_kill] :
        /\ Dispatched(l)
        /\ IF Args(l) = <<>> THEN Continue(<<MsgKillUsage>>)
           ELSE IF ~ParseOk(Args(l)[1]) THEN Continue(<<MsgInvalidPid>>)
           ELSE LET pid == ParseU32(Args(l)[1])
                    found == pid \in TableKeys(bg)
                IN  /\ ~lock
                    /\ lock' = TRUE
                    /\ bg' = TableRemove(bg, pid)
                    /\ \E ok \in BOOLEAN :
                           out' = <<KillMessage(pid, found, ok)>>
                    /\ os' = IF found THEN Dropped(os, TableGet(bg, pid))
                             ELSE os
                    /\ removed' = (removed \/ found)
                    /\ ran' = <<>>
                    /\ pc' = "locked"
                    /\ UNCHANGED <<child, cwd, started>>

\* a guard that outlives the iteration
ReleaseKept ==
    /\ pc = "locked"
    /\ pc' = "end"
    /\ UNCHANGED <<stdin, locals, bg, lock, child, os, cwd, started, removed>>

\* the MutexGuard is dropped and the iteration is over
Release ==
    /\ pc = "locked"
    /\ lock' = FALSE
    /\ pc' = "end"
    /\ UNCHANGED <<stdin, locals, bg, child, os, cwd, started, removed>>

(***************************************************************************)
(* The process launcher (main.rs 218-236).                                 *)
(***************************************************************************)
\* a faulty launcher: the spawn result is unwrapped
SpawnFailUnwrapped ==
    \E l \in ExternalLines :
        /\ Dispatched(l)
        /\ out' = <<>>
        /\ ran' = <<>>
        /\ pc' = "panicked"
        /\ UNCHANGED <<bg, lock, child, os, cwd, started, removed>>

\* main.rs 233-235: spawn() returned Err
SpawnFail ==
    \E l \in ExternalLines :
        /\ Dispatched(l)
        /\ Continue(<<MsgSpawnError>>)

\* main.rs 220-223: the started message, then the insert under a guard that
\* is dropped at the end of the statement
SpawnBackground ==
    \E l \in ExternalLines, p \in FreePids :
        /\ Background(LineParts[l])
        /\ Dispatched(l)
        /\ os' = [os EXCEPT ![p] = "running"]
        /\ ~lock
        /\ lock' = TRUE
        /\ out' = <<MsgStarted(p)>>
        /\ ran' = Cmd(l)
        /\ started' = started \cup {p}
        /\ bg' = TableInsert(bg, p, p)
        /\ pc' = "locked"
        /\ UNCHANGED <<child, cwd, removed>>

\* main.rs 224-225: the loop blocks in child.wait()
SpawnForeground ==
    \E l \in ExternalLines, p \in FreePids :
        /\ ~Background(LineParts[l])
        /\ Dispatched(l)
        /\ os' = [os EXCEPT ![p] = "running"]
        /\ child' = p
        /\ out' = <<>>
        /\ ran' = Cmd(l)
        /\ pc' = "wait"
        /\ UNCHANGED <<bg, lock, cwd, started, removed>>

\* a faulty wait: it returns at once (try_wait in place of wait)
WaitReadyAtOnce(p) == TRUE

\* child.wait() can return Ok once the process has terminated
WaitReady(p) == os[p] = "exited"

\* main.rs 225-226: wait() returns Ok: the child is reaped, its pid free
WaitReturn ==
    /\ pc = "wait"
    /\ WaitReady(child)
    /\ os' = [os EXCEPT ![child] = "free"]
    /\ child' = 0
    /\ pc' = "end"
    /\ UNCHANGED <<stdin, locals, bg, lock, cwd, started, removed>>

\* main.rs 227-229: wait() returns Err, which is printed; the child is
\* dropped as it is
WaitFail ==
    /\ pc = "wait"
    /\ os' = Dropped(os, child)
    /\ child' = 0
    /\ out' = <<MsgWaitError>>
    /\ pc' = "end"
    /\ UNCHANGED <<stdin, input, line, parts, background, ran, bg, lock, cwd,
                   started, removed>>

(***************************************************************************)
(* The children and the OS.                                                *)
(***************************************************************************)
Alive == pc \in {"read", "end", "locked", "wait"}

\* a table that forgets a process when it terminates
ChildExitReaped ==
    \E p \in PIDs :
        /\ pc \in {"read", "end", "locked", "wait"}
        /\ os[p] = "running"
        /\ os' = [os EXCEPT ![p] = "exited"]
        /\ bg' = TableRemove(bg, p)
        /\ UNCHANGED <<pc, stdin, locals, lock, child, cwd, started, removed>>

\* a child the shell holds terminates on its own; its pid stays taken
ChildExit ==
    \E p \in PIDs :
        /\ Alive
        /\ os[p] = "running"
        /\ os' = [os EXCEPT ![p] = "exited"]
        /\ UNCHANGED <<pc, stdin, locals, bg, lock, child, cwd, started, removed>>

\* a child the shell has dropped is over and the OS gives its pid back
\* (where the platform does that without a wait)
ChildGone ==
    \E p \in PIDs :
        /\ Alive
        /\ os[p] = "dropped"
        /\ os' = [os EXCEPT ![p] = "free"]
        /\ UNCHANGED <<pc, stdin, locals, bg, lock, child, cwd, started, removed>>

Next ==
    \/ Prompt
    \/ ReadError
    \/ ReadEof
    \/ SkipLine
    \/ LoneAmpersand
    \/ Calc
    \/ Exit
    \/ Cd
    \/ Pwd
    \/ Clear
    \/ Jobs
    \/ Kill
    \/ Release
    \/ SpawnFail
    \/ SpawnBackground
    \/ SpawnForeground
    \/ WaitReturn
    \/ WaitFail
    \/ ChildExit
    \/ ChildGone

Spec == Init /\ [][Next]_vars

(***************************************************************************)
(* The text stages of one iteration (main.rs 184-211), one statement at a  *)
(* time, on every text of at most MaxLen characters of TextChars.          *)
(***************************************************************************)
TextChars == {"l", " ", "&", "$", "X", "B"}

Texts == UNION {[1..n -> TextChars] : n \in 0..MaxLen}

\* main.rs 184-185: read_line has returned Ok and input holds the line
TextInit ==
    /\ pc = "entered"
    /\ stdin = "open"
    /\ input \in {AsRead(t) : t \in Texts}
    /\ line = <<>>
    /\ parts = <<>>
    /\ background = FALSE
    /\ out = <<>>
    /\ ran = <<>>
    /\ bg = {}
    /\ lock = FALSE
    /\ child = 0
    /\ os = [p \in PIDs |-> "free"]
    /\ cwd = "/"
    /\ started = {}
    /\ removed = FALSE

\* what no text stage changes
beyondText == <<stdin, input, out, ran, bg, lock, child, os, cwd, started,
                removed>>

\* main.rs 188-191: input.trim(), and `continue` when nothing is left
TrimLine ==
    /\ pc = "entered"
    /\ line' = Trim(input)
    /\ pc' = IF line' = <<>> THEN "end" ELSE "trimmed"
    /\ UNCHANGED <<parts, background, beyondText>>

\* main.rs 193
ExpandLine ==
    /\ pc = "trimmed"
    /\ line' = expand_env_vars(line)
    /\ pc' = "expanded"
    /\ UNCHANGED <<parts, background, beyondText>>

\* main.rs 195-197
AliasLine ==
    /\ pc = "expanded"
    /\ line' = ApplyAlias(line)
    /\ pc' = "aliased"
    /\ UNCHANGED <<parts, background, beyondText>>

\* main.rs 199-202: split_whitespace, and `continue` when there is no token
SplitLine ==
    /\ pc = "aliased"
    /\ parts' = split_whitespace(line)
    /\ pc' = IF parts' = <<>> THEN "end" ELSE "split"
    /\ UNCHANGED <<line, background, beyondText>>

\* main.rs 204-209
PopBackground ==
    /\ pc = "split"
    /\ background' = Background(parts)
    /\ parts' = PopAmp(parts)
    /\ pc' = "popped"
    /\ UNCHANGED <<line, beyondText>>

\* main.rs 211: parts[0] panics when parts is empty
TakeCmd ==
    /\ pc = "popped"
    /\ pc' = IF parts = <<>> THEN "panicked" ELSE "dispatch"
    /\ UNCHANGED <<line, parts, background, beyondText>>

TextNext ==
    \/ TrimLine
    \/ ExpandLine
    \/ AliasLine
    \/ SplitLine
    \/ PopBackground
    \/ TakeCmd

TextSpec == TextInit /\ [][TextNext]_vars

TypeOK ==
    /\ pc \in {"read", "end", "locked", "wait", "done", "exited", "panicked"}
    /\ stdin \in {"open", "eof"}
    /\ background \in BOOLEAN
    /\ lock \in BOOLEAN
    /\ child \in {0} \cup PIDs
    /\ os \in [PIDs -> {"free", "running", "exited", "dropped"}]
    /\ cwd \in Dirs
    /\ started \subseteq PIDs
    /\ removed \in BOOLEAN
    /\ \A e \in bg : e[1] \in Nat /\ e[2] \in PIDs

(***************************************************************************)
(* Steps and states the properties speak of.                               *)
(***************************************************************************)
\* a step in which read_line returns a line
LineStep == pc = "read" /\ input' # <<>>

\* a step that runs the builtin named c
BuiltinStep(c) == LineStep /\ parts' # <<>> /\ parts'[1] = c

\* a step that runs `kill` with a first argument that parses to id
KillStepOf(id) ==
    /\ BuiltinStep(W_kill)
    /\ Len(parts') >= 2
    /\ ParseOk(parts'[2])
    /\ ParseU32(parts'[2]) = id

\* a step that hands an external command to the launcher
LaunchStep == LineStep /\ parts' # <<>> /\ parts'[1] \notin Builtins

\* in this step the OS starts a child under pid p
StartedUnder(p) == os[p] = "free" /\ os'[p] = "running"

\* the state an iteration leaves behind ran the builtin named c
Ran(c) == pc \in {"end", "locked"} /\ parts # <<>> /\ parts[1] = c

\* the pids whose "PID p - Running" line is in o
Listed(o) == {p \in PIDs : \E i \in DOMAIN o : o[i] = MsgRunning(p)}

\* the identifiers a kill may name in the model
Ids == 0..(MaxPid + 1)

(***************************************************************************)
(* C1: `kill <id>` removes the record of id if and only if id was in the   *)
(* table just before, and leaves every other record as it was, whatever    *)
(* child.kill() returns and whatever arguments follow the id.              *)
(***************************************************************************)
C1_KillRemovesExactlyId ==
    [][\A id \in Ids :
           KillStepOf(id) =>
               /\ bg' = {e \in bg : e[1] # id}
               /\ (id \in TableKeys(bg) <=> bg' # bg)]_vars

\* a kill with a further argument has removed the record of 1 and left the
\* record of 2
C1_Witness ==
    /\ pc = "locked"
    /\ Len(parts) = 3
    /\ parts[1] = W_kill
    /\ out \in {<<MsgKilled(1)>>, <<MsgKillFailed(1)>>}
    /\ bg = {<<2, 2>>}

(***************************************************************************)
(* C2: the table holds at most one record per identifier, each under the   *)
(* pid of a child that a background launch started and no kill has removed *)
(* since; a background insert finds its pid unused and keeps every record  *)
(* that is in the table.                                                   *)
(***************************************************************************)
\* the pids of the background children started and not removed by a kill
Tracked == {p \in started : os[p] \in {"running", "exited"} /\ p # child}

TableSound ==
    /\ \A e, f \in bg : e[1] = f[1] => e = f
    /\ \A e \in bg : e[2] = e[1]
    /\ TableKeys(bg) \subseteq Tracked

\* C2: every step leaves the table sound, and a background launch that
\* starts under p finds p unused in the table and keeps every record
C2_TableSound ==
    [][/\ TableSound'
       /\ \A p \in PIDs :
              (LaunchStep /\ background' /\ StartedUnder(p)) =>
                  /\ p \notin TableKeys(bg)
                  /\ bg \subseteq bg']_vars

\* a second background child has been inserted beside the first
C2_Witness ==
    /\ pc = "locked"
    /\ background
    /\ out = <<MsgStarted(2)>>
    /\ bg = {<<1, 1>>, <<2, 2>>}
    /\ removed

(***************************************************************************)
(* C3: after N successful background launches and no record removed by a   *)
(* kill, `jobs` lists exactly N identifiers, each printed before in a      *)
(* started message; with N = 0 it prints "No background jobs".  (While no  *)
(* record has been removed every launch got a pid of its own, so N is the  *)
(* number of pids printed in started messages.)                            *)
(***************************************************************************)
C3_JobsListsLaunches ==
    (Ran(W_jobs) /\ ~removed) =>
        IF started = {} THEN out = <<MsgNoJobs>>
        ELSE /\ Len(out) = Cardinality(started)
             /\ \A i \in DOMAIN out : \E p \in started : out[i] = MsgRunning(p)
             /\ Listed(out) = started

\* jobs has listed two background children
C3_Witness ==
    /\ Ran(W_jobs)
    /\ ~removed
    /\ Cardinality(started) = 2
    /\ Len(out) = 2

(***************************************************************************)
(* C4: the lifecycle of one background job.  A background launch that      *)
(* starts under p prints the started message and puts p in the table;      *)
(* `jobs` lists p exactly while p is in the table; p leaves the table only *)
(* by a `kill p`, which removes it and prints one of the lines of          *)
(* killLines; while p is not in the table `kill p` prints "No such         *)
(* background process: p"; and p enters the table only by a background     *)
(* launch that starts under p.                                             *)
(***************************************************************************)
Lifecycle(p, killLines) ==
    /\ (LaunchStep /\ background' /\ StartedUnder(p)) =>
           (out' = <<MsgStarted(p)>> /\ p \in TableKeys(bg'))
    /\ BuiltinStep(W_jobs) => (p \in Listed(out') <=> p \in TableKeys(bg))
    /\ (KillStepOf(p) /\ p \in TableKeys(bg)) =>
           (out' \in killLines /\ p \notin TableKeys(bg'))
    /\ (KillStepOf(p) /\ p \notin TableKeys(bg)) =>
           (out' = <<MsgNoSuch(p)>> /\ p \notin TableKeys(bg'))
    /\ (p \in TableKeys(bg) /\ p \notin TableKeys(bg')) => KillStepOf(p)
    /\ (p \notin TableKeys(bg) /\ p \in TableKeys(bg')) =>
           (LaunchStep /\ background' /\ StartedUnder(p))

\* C4 as claimed: the kill of a job in the table prints the success message
C4_KillPrintsSuccess ==
    [][\A p \in PIDs : Lifecycle(p, {<<MsgKilled(p)>>})]_vars

\* C4 as amended: the kill of a job in the table prints the success message
\* or, when the termination request fails, the failure message; either way
\* the record is removed
C4_Lifecycle ==
    [][\A p \in PIDs :
           Lifecycle(p, {<<MsgKilled(p)>>, <<MsgKillFailed(p)>>})]_vars

\* pid 1 was started in the background and is not in the table any more: a
\* kill of 1 has just reported that there is no such process
C4_Witness ==
    /\ Ran(W_kill)
    /\ out = <<MsgNoSuch(1)>>
    /\ 1 \in started
    /\ removed

(***************************************************************************)
(* C5: the outcomes of one `kill`.                                         *)
(***************************************************************************)
\* the first argument of the kill this step runs parses as a u32
KillArgParses == Len(parts') >= 2 /\ ParseOk(parts'[2])

KillArg == ParseU32(parts'[2])

\* (1) "Invalid PID" is printed and the table is unchanged
KillInvalid == out' = <<MsgInvalidPid>> /\ bg' = bg

\* (2) the identifier was in the table, its record is removed, and the
\* success or the failure of the termination is reported
KillRemoved ==
    /\ KillArgParses
    /\ KillArg \in TableKeys(bg)
    /\ bg' = {e \in bg : e[1] # KillArg}
    /\ out' \in {<<MsgKilled(KillArg)>>, <<MsgKillFailed(KillArg)>>}

\* (3) the identifier was absent and the "no such process" line is printed
KillAbsent ==
    /\ KillArgParses
    /\ KillArg \notin TableKeys(bg)
    /\ bg' = bg
    /\ out' = <<MsgNoSuch(KillArg)>>

\* the usage line is printed and the table is unchanged
KillUsage == out' = <<MsgKillUsage>> /\ bg' = bg

\* C5 as claimed: for every argument list, one of the three outcomes, the
\* first one whenever no argument parses
C5_ThreeOutcomes ==
    [][BuiltinStep(W_kill) =>
           IF KillArgParses THEN (KillRemoved \/ KillAbsent) /\ ~KillInvalid
           ELSE KillInvalid]_vars

\* C5 as amended: for every non-empty argument list, exactly one of the
\* three outcomes (the first one when the first argument does not parse);
\* for the empty argument list the usage line, the table unchanged
C5_KillOutcomes ==
    [][BuiltinStep(W_kill) =>
           IF Len(parts') = 1 THEN KillUsage
           ELSE IF KillArgParses
                THEN /\ KillRemoved \/ KillAbsent
                     /\ ~(KillRemoved /\ KillAbsent)
                     /\ ~KillInvalid
                ELSE KillInvalid]_vars

\* a kill whose argument does not parse has printed "Invalid PID" beside a
\* table that holds a record
C5_Witness ==
    /\ Ran(W_kill)
    /\ Len(parts) = 2
    /\ ~ParseOk(parts[2])
    /\ out = <<MsgInvalidPid>>
    /\ bg # {}

(***************************************************************************)
(* C6: when read_line meets the end of the input the loop ends: the shell  *)
(* is never back in read_line once the input is exhausted.                 *)
(***************************************************************************)
C6_EofEndsLoop == stdin = "eof" => pc # "read"

(***************************************************************************)
(* C7: the program ends only by `exit` or by a failure to read the next    *)
(* line; every other line leaves the loop running.                         *)
(***************************************************************************)
C7_EndsOnlyOnExitOrReadFailure ==
    pc \notin {"read", "end", "locked", "wait"} =>
        \/ pc = "exited" /\ parts # <<>> /\ parts[1] = W_exit
        \/ pc = "done" /\ input = <<>>

(***************************************************************************)
(* C8: a background launch that starts under p prints the started message  *)
(* with p, inserts one record under p, adds or removes no other record and *)
(* does not wait: the iteration is over once the guard is released.        *)
(***************************************************************************)
C8_BackgroundLaunch ==
    [][/\ \A p \in PIDs :
              (LaunchStep /\ background' /\ StartedUnder(p)) =>
                  /\ out' = <<MsgStarted(p)>>
                  /\ p \notin TableKeys(bg)
                  /\ bg' = bg \cup {<<p, p>>}
                  /\ child' = 0
                  /\ pc' = "locked"
       /\ (pc = "locked" /\ pc' # "locked") => pc' = "end"]_vars

\* the iteration of a background launch is over, the child still running
C8_Witness ==
    /\ pc = "end"
    /\ background
    /\ out = <<MsgStarted(2)>>
    /\ bg = {<<1, 1>>, <<2, 2>>}
    /\ os[2] = "running"

(***************************************************************************)
(* C9: a foreground launch that starts under p makes the loop wait for p:  *)
(* the iteration ends only once p has terminated or the wait has failed    *)
(* and the failure is printed, no line is read meanwhile, and the table is *)
(* the same from the launch to the end of the iteration.                   *)
(***************************************************************************)
C9_ForegroundLaunch ==
    [][/\ \A p \in PIDs :
              (LaunchStep /\ ~background' /\ StartedUnder(p)) =>
                  /\ pc' = "wait"
                  /\ child' = p
                  /\ bg' = bg
       /\ pc = "wait" =>
              /\ bg' = bg
              /\ input' = input
              /\ child \in PIDs
              /\ child \notin TableKeys(bg)
              /\ \/ pc' = "wait"
                 \/ pc' = "end" /\ os[child] = "exited" /\ out' = out
                 \/ pc' = "end" /\ out' = <<MsgWaitError>>]_vars

\* the wait for a foreground child is over and the table holds what it held
C9_Witness ==
    /\ pc = "end"
    /\ parts = <<W_ls>>
    /\ ~background
    /\ out = <<>>
    /\ child = 0
    /\ bg = {<<1, 1>>}
    /\ os[2] = "free"

(***************************************************************************)
(* C10: a launch that starts no child prints the error line, no started    *)
(* line, inserts no record, and the iteration ends.                        *)
(***************************************************************************)
C10_SpawnFailure ==
    [][(LaunchStep /\ \A p \in PIDs : ~StartedUnder(p)) =>
           /\ out' = <<MsgSpawnError>>
           /\ bg' = bg
           /\ started' = started
           /\ pc' = "end"]_vars

\* a background launch has failed beside a table that holds a record
C10_Witness ==
    /\ pc = "end"
    /\ background
    /\ out = <<MsgSpawnError>>
    /\ bg # {}

(***************************************************************************)
(* C11: dispatch is by exact match of the first token against the seven    *)
(* builtin names.                                                          *)
(***************************************************************************)
BuiltinNames == {W_calc, W_exit, W_cd, W_pwd, W_clear, W_jobs, W_kill}

\* this step has not been through the launcher: no child of the shell is
\* started, nothing is waited for, no spawn error is printed
NotLaunched ==
    /\ \A p \in PIDs : ~StartedUnder(p)
    /\ out' # <<MsgSpawnError>>
    /\ pc' # "wait"
    /\ child' = child
    /\ started' = started

\* this step has been through the launcher: the spawn of the first token
\* has failed, or has started a child of that name
Launched ==
    \/ out' = <<MsgSpawnError>> /\ ran' = <<>>
    \/ \E p \in PIDs : StartedUnder(p) /\ ran' = parts'[1]

\* C11 as claimed: a line whose first token is a builtin name does not reach
\* the launcher and no external program is run for it; any other line goes
\* to the launcher
C11_BuiltinRunsNoProgram ==
    [][(LineStep /\ parts' # <<>>) =>
           IF parts'[1] \in BuiltinNames THEN NotLaunched /\ ran' = <<>>
           ELSE Launched]_vars

\* C11 as amended: a line whose first token is a builtin name does not reach
\* the launcher, and the only external program run for it is the clear
\* program that `clear` itself runs; any other line goes to the launcher
C11_Dispatch ==
    [][(LineStep /\ parts' # <<>>) =>
           IF parts'[1] \in BuiltinNames
           THEN /\ NotLaunched
                /\ ran' # <<>> => (parts'[1] = W_clear /\ ran' = W_clear)
           ELSE Launched]_vars

\* `Jobs` is no builtin: the launcher has tried to spawn it
C11_Witness ==
    /\ pc = "end"
    /\ parts = <<W_Jobs>>
    /\ out = <<MsgSpawnError>>

(***************************************************************************)
(* C12. The trailing "&".                                                  *)
(***************************************************************************)
\* the last whitespace-separated token of text l is "&", read off the text
LastTokenIsAmp(l) ==
    \E i \in 1..Len(l) :
        /\ l[i] = "&"
        /\ i = 1 \/ IsWhitespace(l[i - 1])
        /\ \A k \in (i + 1)..Len(l) : IsWhitespace(l[k])

\* the token list without its last token
Front(ps) == SubSeq(ps, 1, Len(ps) - 1)

\* C12 as stated: a line whose last token is "&" yields background = true
\* and the token list without that token; any other line yields
\* background = false and no "&" in the token list.
C12_AmpAbsentOtherwise ==
    pc = "popped" =>
        IF LastTokenIsAmp(line)
        THEN background /\ parts = Front(split_whitespace(line))
        ELSE ~background /\ \A i \in 1..Len(parts) : parts[i] # W_amp

\* C12, amended: a line whose last token is "&" yields background = true and
\* the token list without that last token; any other line yields
\* background = false and the token list as it was split, so an "&" that is
\* not the last token stays in the list in both cases.
C12_TrailingAmp ==
    pc = "popped" =>
        IF LastTokenIsAmp(line)
        THEN background /\ parts = Front(split_whitespace(line))
        ELSE ~background /\ parts = split_whitespace(line)

\* the line `& &`: the last "&" is removed, the first one is the command
C12_Witness ==
    /\ pc = "popped"
    /\ Str(line) = "& &"
    /\ background
    /\ parts = <<W_amp>>

(***************************************************************************)
(* C13. The alias lookup.                                                  *)
(***************************************************************************)
\* the alias table as texts: trigger, target
AliasTexts == {<<"ll", "ls -la">>, <<"..", "cd ..">>, <<"h", "cd ~">>}

\* C13: the alias lookup is applied once, to the whole expanded line: when
\* the expanded line is exactly a trigger the line tokenized is the target,
\* and otherwise (a trigger followed by anything else included) the line
\* is tokenized as it was after expansion.
C13_WholeLineAlias ==
    [][(pc = "expanded" /\ pc' = "aliased") =>
          /\ \A a \in AliasTexts : Str(line) = a[1] => Str(line') = a[2]
          /\ (\A a \in AliasTexts : Str(line) # a[1]) => line' = line]_vars

\* the trigger spelled `$X`, which expands to `ll`
C13_Witness ==
    /\ pc = "aliased"
    /\ Str(input) = "$X\n"
    /\ Str(line) = "ls -la"

(***************************************************************************)
(* C14. expand_env_vars, against a description of its result by positions. *)
(***************************************************************************)
\* position i of s is inside the name of a reference: a name character with
\* a "$" before it and only name characters in between
InName(s, i) ==
    /\ IsNameChar(s[i])
    /\ \E j \in 1..(i - 1) :
           s[j] = "$" /\ \A k \in (j + 1)..i : IsNameChar(s[k])

\* the longest run of name characters right after the "$" at position i
NameAfter(s, i) ==
    LET n == CHOOSE m \in 0..(Len(s) - i) :
                 /\ \A k \in (i + 1)..(i + m) : IsNameChar(s[k])
                 /\ i + m = Len(s) \/ ~IsNameChar(s[i + m + 1])
    IN  SubSeq(s, i + 1, i + n)

\* what position i of s contributes to the result, when each name in the
\* domain of `values` is replaced by values[name]
Piece(s, i, values) ==
    IF s[i] = "$"
    THEN LET name == NameAfter(s, i)
         IN  IF name \in DOMAIN values THEN values[name] ELSE <<"$">> \o name
    ELSE IF InName(s, i) THEN <<>> ELSE <<s[i]>>

RECURSIVE Pieces(_, _, _)
\* the contributions of positions 1..i, in order
Pieces(s, i, values) ==
    IF i = 0 THEN <<>> ELSE Pieces(s, i - 1, values) \o Piece(s, i, values)

\* every name that is set, with the value the environment holds
ValuesWhenSet == [name \in SetNames |-> OsValue(name)]

\* every name env::var returns Ok for, with the value it returns
ValuesWhenOk == [name \in EnvNames |-> EnvVar(name)]

\* a step of expand_env_vars
ExpandStep == pc = "trimmed" /\ pc' = "expanded"

\* C14 as stated: every $NAME is replaced by the value of NAME when NAME is
\* set and left as it is when NAME is unset, a "$" with no name character
\* after it is emitted as it is, every other character is copied in order.
C14_ReplacedWhenSet ==
    [][ExpandStep => line' = Pieces(line, Len(line), ValuesWhenSet)]_vars

\* C14, amended: $NAME is replaced by the value of NAME when NAME is set to
\* valid Unicode, and left as it is when NAME is unset or its value is not
\* valid Unicode; a "$" with no name character after it is emitted as it
\* is, every other character is copied in order.
C14_Expansion ==
    [][ExpandStep => line' = Pieces(line, Len(line), ValuesWhenOk)]_vars

\* `$X$l`: X is replaced by its value, the unset l is left as `$l`
C14_Witness ==
    /\ pc = "expanded"
    /\ Str(input) = "$X$l\n"
    /\ Str(line) = "ll$l"

(***************************************************************************)
(* C15. A `cd` that fails, and `cd` with no argument.                      *)
(***************************************************************************)
\* the directory the `cd` of this step names
CdTarget == IF Len(parts') = 1 THEN "." ELSE Str(parts'[2])

\* C15: a `cd` that fails prints an error and leaves the working directory
\* and the process table as they were, the loop goes on and the next prompt
\* is computed from the unchanged directory; `cd` with no argument targets
\* "." and leaves the directory unchanged.
C15_FailedCd ==
    [][/\ BuiltinStep(W_cd) =>
            /\ pc' = "end"
            /\ bg' = bg
            /\ ~ChdirOk(cwd, CdTarget) => (out' = <<MsgError>> /\ cwd' = cwd)
            /\ Len(parts') = 1 => (out' = <<>> /\ cwd' = cwd)
       /\ (pc = "end" /\ pc' = "read") => cwd' = cwd]_vars

\* `cd ~` (the alias h) has failed in /a with a process in the table
C15_Witness ==
    /\ pc = "end"
    /\ parts = <<W_cd, <<"~">>>>
    /\ out = <<MsgError>>
    /\ cwd = "/a"
    /\ bg # {}

(***************************************************************************)
(* C16. `clear` when the clear program cannot be run.                      *)
(***************************************************************************)
\* C16: whatever becomes of the clear program, `clear` is handled, the state
\* of the shell is unchanged and the loop goes on to the next iteration.
C16_ClearDiscardsError ==
    [][BuiltinStep(W_clear) =>
          /\ pc' = "end"
          /\ UNCHANGED <<bg, lock, child, os, cwd>>]_vars

(***************************************************************************)
(* C17. Records leave the table only through kill.                         *)
(***************************************************************************)
\* C17: a record leaves the table only in a step that runs `kill` with its
\* identifier, and `jobs` lists every record of the table, the records of
\* processes that have exited included.
C17_OnlyKillRemoves ==
    [][/\ \A e \in bg : e \notin bg' => KillStepOf(e[1])
       /\ BuiltinStep(W_jobs) => Listed(out') = TableKeys(bg)]_vars

\* `jobs` lists a background process that has exited on its own
C17_Witness ==
    /\ Ran(W_jobs)
    /\ \E p \in TableKeys(bg) : os[p] = "exited" /\ p \in Listed(out)

(***************************************************************************)
(* C18. The lock of the table.                                             *)
(***************************************************************************)
\* a step that reads or writes the table: jobs, a kill whose argument
\* parses, a background insert
TableStep ==
    \/ BuiltinStep(W_jobs)
    \/ \E id \in Ids : KillStepOf(id)
    \/ bg' # bg

\* C18: every step that reads or writes the table takes the free lock and
\* holds it; a held lock is released by the next step of the loop, which
\* ends the iteration; the lock is free while the loop waits for a
\* foreground child or for a line, and at the start of every iteration.
C18_LockDiscipline ==
    [][/\ TableStep => (~lock /\ lock' /\ pc' = "locked")
       /\ (pc = "locked" /\ pc' # pc) => (pc' = "end" /\ ~lock')
       /\ lock' => pc' = "locked"
       /\ pc' \in {"read", "wait", "end"} => ~lock']_vars

\* `kill` has removed a record and still holds the lock
C18_Witness ==
    /\ pc = "locked"
    /\ lock
    /\ Ran(W_kill)
    /\ removed

(***************************************************************************)
(* C19. The command name after the pop.                                    *)
(***************************************************************************)
\* C19: when the command name is taken the token list left after the pop of
\* a trailing "&" is not empty, so parts[0] never fails.
C19_CommandNameExists ==
    /\ pc = "popped" => parts # <<>>
    /\ pc # "panicked"

(***************************************************************************)
(* C20. A builtin with a trailing "&".                                     *)
(***************************************************************************)
\* a step that runs a builtin of a line with the trailing marker
BuiltinBackgroundStep ==
    LineStep /\ background' /\ parts' # <<>> /\ parts'[1] \in BuiltinNames

\* C20: a builtin entered with a trailing "&" runs in the step itself as it
\* does without the marker (jobs lists the table, kill removes the record it
\* names, cd changes the directory), the marker is not among its
\* arguments, no record is inserted and nothing goes to the launcher.
C20_BuiltinIgnoresMarker ==
    [][BuiltinBackgroundStep =>
          /\ parts' = Front(split_whitespace(line'))
          /\ NotLaunched
          /\ bg' \subseteq bg
          /\ parts'[1] = W_jobs => (Listed(out') = TableKeys(bg) /\ bg' = bg)
          /\ \A id \in Ids : KillStepOf(id) =>
                 /\ TableKeys(bg') = TableKeys(bg) \ {id}
                 /\ \E ok \in BOOLEAN :
                        out' = <<KillMessage(id, id \in TableKeys(bg), ok)>>
          /\ parts' = <<W_cd, <<"a">>>> =>
                 cwd' = (IF cwd = "/" THEN "/a" ELSE cwd)]_vars

\* `kill 1 &` has killed the background process 1
C20_Witness ==
    /\ pc = "locked"
    /\ background
    /\ parts = <<W_kill, <<"1">>>>
    /\ out = <<MsgKilled(1)>>
    /\ 1 \notin TableKeys(bg)
====
